---- MODULE Spec2Model ----
(***************************************************************************)
(* Booking / availability subsystem of the fieldsport booking platform.    *)
(* The database tables are the state; every helper of db_helpers.py is one *)
(* database session (one atomic step); a Streamlit script run that reads   *)
(* through one helper and writes through another takes one step per        *)
(* helper, so runs of different browser sessions interleave between them.  *)
(***************************************************************************)
EXTENDS Integers, Sequences, FiniteSets, TLC

\* ---------------------------------------------------------------- bounds
NumFields == 2
NumHunters == 2
NumDates == 2
MaxCapacity == 2
MaxParty == 2
MaxBookings == 2
MaxSessions == 2
MaxReports == 2
MaxQuota == 2
MaxHarvest == 2
\* values generate_unique_tag_number can draw
NumTagNumbers == 3
\* rows of animal_tags
MaxTags == 2

Fields == 1..NumFields
\* an id that is the key of no row of the fields table
UnknownField == NumFields + 1
FieldIds == Fields \cup {UnknownField}
Hunters == 1..NumHunters
Dates == 1..NumDates
\* two browser sessions, whose script runs interleave
Sessions == {"s1", "s2"}

\* ------------------------------------------------------------ vocabulary
BookingStatuses == {"pending", "confirmed", "cancelled", "rejected"}
FieldTypes == {"diy-leased", "subsidised"}
HuntStatuses == {"not_started", "active", "completed"}
\* the quarry of the seeded self-guided grounds, and one no ground lists
Species == {"Red Grouse", "Black Grouse", "Fox"}

None == 0

VARIABLES
    fields,     \* fields table: id -> row
    bookings,   \* bookings table: sequence of rows, the id is the index
    pc,         \* per browser session: position of its script run
    req,        \* per browser session: locals of its script run
    ret,        \* return value of the helper call made by the last step
    hunt_sessions,  \* hunt_sessions table: sequence of rows, the id is the index
    hunt_reports,   \* hunt_reports table: sequence of rows, the id is the index
    today,          \* the current day
    session_state,  \* per browser session: st.session_state
    animal_tags,    \* animal_tags table: sequence of rows, the id is the index
    files           \* the files stored under qr_codes/ and animal_photos/

hunt == <<hunt_sessions, hunt_reports, today, session_state, animal_tags, files>>

vars == <<fields, bookings, pc, req, ret, hunt_sessions, hunt_reports, today, session_state,
          animal_tags, files>>

\* ------------------------------------------------------------------ rows
\* a column that is NULL is the empty tuple, a value v is <<v>>; a timestamp
\* is kept to its day
Null == <<>>

Field(capacity, auto_approve, field_type, quarry_species, quarry_total) ==
    [capacity |-> capacity, auto_approve_bookings |-> auto_approve,
     field_type |-> field_type, blocked_dates |-> {},
     quarry_species |-> quarry_species,
     quarry_total |-> quarry_total, quarry_remaining |-> quarry_total]

Quarry(species, total) == [species |-> species, total |-> total, remaining |-> total]

HuntSession(booking_id, hunter_id, field_id) ==
    [booking_id |-> booking_id, hunter_id |-> hunter_id, field_id |-> field_id,
     start_time |-> Null, end_time |-> Null, status |-> "not_started"]

HuntReport(session_id, field_id, hunter_id, report_data) ==
    [session_id |-> session_id, field_id |-> field_id, hunter_id |-> hunter_id,
     animals_harvested |-> report_data.animals_harvested,
     species_harvested |-> report_data.species_harvested,
     review_rating |-> report_data.review_rating,
     review_text |-> report_data.review_text]

Booking(field_id, hunter_id, date, num_hunters, status) ==
    [field_id |-> field_id, hunter_id |-> hunter_id, date |-> date,
     num_hunters |-> num_hunters, status |-> status]

NoReportData == [animals_harvested |-> 0, species_harvested |-> <<>>,
                 review_rating |-> Null, review_text |-> ""]

NoReq == [field_id |-> None, hunter_id |-> None, date |-> None, num_hunters |-> None,
          admin_override |-> FALSE, booking_id |-> None, status |-> "", began |-> None,
          session_id |-> None, hunt_status |-> "", report_data |-> NoReportData,
          field_row |-> Null, report_id |-> None, tag_number |-> None,
          species |-> "", condition |-> "", photo_bytes |-> FALSE]

NoRet == [op |-> "none"]

BookingIds == 1..Len(bookings)
HuntSessionIds == 1..Len(hunt_sessions)
HuntReportIds == 1..Len(hunt_reports)

\* ------------------------------------------------- check_hunter_has_booking_on_date
\* the rows the query's filter selects; .first() returns one of them
HunterBookingsOnDate(hunter_id, date) ==
    {b \in BookingIds : /\ bookings[b].hunter_id = hunter_id
                        /\ bookings[b].date = date
                        /\ bookings[b].status \in {"confirmed", "pending"}}

\* what the helper can return as existing_booking: a row of the query, or
\* nothing, (False, None), when there is no row or when the query raises
check_hunter_has_booking_on_date(hunter_id, date, fails) ==
    IF fails THEN {} ELSE HunterBookingsOnDate(hunter_id, date)

\* ---------------------------------------------------------- check_availability
RECURSIVE SumNumHunters(_)
SumNumHunters(S) ==
    IF S = {} THEN 0
    ELSE LET b == CHOOSE x \in S : TRUE
         IN bookings[b].num_hunters + SumNumHunters(S \ {b})

\* variant: the query has no status filter
BookingsOnDate_any_status(field_id, date) ==
    {b \in BookingIds : /\ bookings[b].field_id = field_id
                        /\ bookings[b].date = date}

BookingsOnDate(field_id, date) ==
    {b \in BookingIds : /\ bookings[b].field_id = field_id
                        /\ bookings[b].date = date
                        /\ bookings[b].status \in {"confirmed", "pending"}}

total_hunters_booked(field_id, date) == SumNumHunters(BookingsOnDate(field_id, date))

\* variant: the capacity rule is tried before the blocked dates
check_availability_capacity_first(field_id, date, num_hunters) ==
    IF field_id \notin DOMAIN fields
    THEN [ok |-> FALSE, message |-> "Field not found", spots |-> None]
    ELSE IF total_hunters_booked(field_id, date) + num_hunters > fields[field_id].capacity
    THEN [ok |-> FALSE, message |-> "Insufficient capacity",
          spots |-> fields[field_id].capacity - total_hunters_booked(field_id, date)]
    ELSE IF date \in fields[field_id].blocked_dates
    THEN [ok |-> FALSE, message |-> "Date is blocked by outfitter", spots |-> None]
    ELSE [ok |-> TRUE, message |-> "Available", spots |-> None]

check_availability(field_id, date, num_hunters) ==
    IF field_id \notin DOMAIN fields
    THEN [ok |-> FALSE, message |-> "Field not found", spots |-> None]
    ELSE IF date \in fields[field_id].blocked_dates
    THEN [ok |-> FALSE, message |-> "Date is blocked by outfitter", spots |-> None]
    ELSE IF total_hunters_booked(field_id, date) + num_hunters > fields[field_id].capacity
    THEN [ok |-> FALSE, message |-> "Insufficient capacity",
          spots |-> fields[field_id].capacity - total_hunters_booked(field_id, date)]
    ELSE [ok |-> TRUE, message |-> "Available", spots |-> None]

\* --------------------------------------------------------------- create_booking
\* variant: the field's approval setting is ignored
initial_status_always_pending(field_id) == "pending"

initial_status(field_id) ==
    IF field_id \in DOMAIN fields /\ fields[field_id].auto_approve_bookings
    THEN "confirmed" ELSE "pending"

\* variant: the lookup runs even with admin_override
ChecksDoubleBooking_always(admin_override) == TRUE

\* whether create_booking runs the double-booking lookup
ChecksDoubleBooking(admin_override) == ~admin_override

\* the fields the administrator has created (create_subsidised_field,
\* create_diy_leased_field): guided and self-guided grounds, with and without
\* automatic approval, of different capacities, no date blocked yet
SeedFieldType(f) == IF f % 2 = 1 THEN "subsidised" ELSE "diy-leased"
SeedAutoApprove(f) == (f \div 2) % 2 = 1
SeedCapacity(f) == 1 + (f % MaxCapacity)
\* the self-guided grounds carry a quota per species, remaining = total
SeedQuarrySpecies(f) ==
    IF SeedFieldType(f) = "diy-leased"
    THEN <<Quarry("Red Grouse", MaxQuota), Quarry("Black Grouse", 1)>>
    ELSE <<>>

InitRest ==
    /\ bookings = <<>>
    /\ pc = [s \in Sessions |-> "idle"]
    /\ req = [s \in Sessions |-> NoReq]
    /\ ret = NoRet
    /\ hunt_sessions = <<>>
    /\ hunt_reports = <<>>
    /\ animal_tags = <<>>
    /\ files = {}
    /\ today = 1
    /\ session_state = [s \in Sessions |-> [finishing_hunt |-> None]]

\* the same grounds, the self-guided ones with their quota either per
\* species or in the scalar columns quarry_total / quarry_remaining
InitQuota ==
    /\ \E scalar \in BOOLEAN :
          fields = [f \in Fields |->
                      Field(SeedCapacity(f), SeedAutoApprove(f), SeedFieldType(f),
                            IF scalar THEN <<>> ELSE SeedQuarrySpecies(f),
                            IF scalar /\ SeedFieldType(f) = "diy-leased"
                            THEN <<MaxQuota>> ELSE Null)]
    /\ InitRest

\* quota columns a field row can carry: a species list of up to two entries
\* and a scalar pair, each remaining between 0 and its total
QuarryLists ==
    {<<>>}
    \cup {<<[Quarry("Red Grouse", MaxQuota) EXCEPT !.remaining = r]>> : r \in 0..MaxQuota}
    \cup {<<[Quarry("Red Grouse", MaxQuota) EXCEPT !.remaining = r1],
            [Quarry("Black Grouse", MaxQuota) EXCEPT !.remaining = r2]>> :
                r1 \in 0..MaxQuota, r2 \in 0..MaxQuota}

ScalarQuotas == {Null} \cup {<<r>> : r \in 0..MaxQuota}

\* the seeded grounds, one of them with any type and any quota columns
InitExhausted ==
    /\ \E f0 \in Fields, field_type \in FieldTypes, quarry_species \in QuarryLists,
          quarry_remaining \in ScalarQuotas :
          fields = [f \in Fields |->
                      IF f = f0
                      THEN [Field(SeedCapacity(f), SeedAutoApprove(f), field_type, quarry_species,
                                  IF quarry_remaining = Null THEN Null ELSE <<MaxQuota>>)
                              EXCEPT !.quarry_remaining = quarry_remaining]
                      ELSE Field(SeedCapacity(f), SeedAutoApprove(f), SeedFieldType(f),
                                 SeedQuarrySpecies(f), Null)]
    /\ InitRest

Init ==
    /\ fields = [f \in Fields |-> Field(SeedCapacity(f), SeedAutoApprove(f), SeedFieldType(f),
                                         SeedQuarrySpecies(f), Null)]
    /\ InitRest

\* runs that are on their way to the insert of create_booking
InCreateBooking == {t \in Sessions : pc[t] \in {"modal", "cb_start", "cb_insert"}}

\* bound on the bookings table: a run that would overflow it is not started
RoomForBooking == Len(bookings) + Cardinality(InCreateBooking) < MaxBookings

\* the end of a script run: the page shows what the last helper returned and
\* the session waits for the next interaction
EndRun(s) ==
    /\ pc[s] = "done"
    /\ pc' = [pc EXCEPT ![s] = "idle"]
    /\ req' = [req EXCEPT ![s] = NoReq]
    /\ ret' = NoRet
    /\ UNCHANGED <<fields, bookings, hunt_sessions, hunt_reports, today, animal_tags, files, session_state>>

CallCreateBooking(s, field_id, hunter_id, date, num_hunters, admin_override) ==
    /\ pc' = [pc EXCEPT ![s] = "cb_start"]
    /\ req' = [req EXCEPT ![s] = [NoReq EXCEPT !.field_id = field_id, !.hunter_id = hunter_id,
                                                !.date = date, !.num_hunters = num_hunters,
                                                !.admin_override = admin_override,
                                                !.began = Len(bookings)]]

\* ------------------------------------------------------- show_booking_modal
\* a script run of the paid booking modal, up to its availability check: an
\* unavailable date ends the run with the error, an available one lets the
\* run go on to the booking form
show_booking_modal(s, field_id, hunter_id, date, num_hunters) ==
    /\ pc[s] = "idle"
    /\ RoomForBooking
    /\ num_hunters \in 1..fields[field_id].capacity
    /\ LET a == check_availability(field_id, date, num_hunters)
       IN /\ ret' = [op |-> "check_availability", field_id |-> field_id, date |-> date,
                     num_hunters |-> num_hunters, ok |-> a.ok, message |-> a.message,
                     spots |-> a.spots]
          /\ pc' = [pc EXCEPT ![s] = IF a.ok THEN "modal" ELSE "done"]
    /\ req' = [req EXCEPT ![s] = [NoReq EXCEPT !.field_id = field_id, !.hunter_id = hunter_id,
                                                !.date = date, !.num_hunters = num_hunters,
                                                !.began = Len(bookings)]]
    /\ UNCHANGED <<fields, bookings>>
    /\ UNCHANGED hunt

\* the rest of that run: with "Complete Booking" clicked and the payment
\* through, the call of create_booking; otherwise the run ends
complete_booking(s, clicked) ==
    /\ pc[s] = "modal"
    /\ pc' = [pc EXCEPT ![s] = IF clicked THEN "cb_start" ELSE "idle"]
    /\ req' = [req EXCEPT ![s] = IF clicked THEN req[s] ELSE NoReq]
    /\ ret' = NoRet
    /\ UNCHANGED <<fields, bookings>>
    /\ UNCHANGED hunt

\* a direct call of the helper, for any field id
CheckAvailability(s, field_id, date, num_hunters) ==
    /\ pc[s] = "idle"
    /\ LET a == check_availability(field_id, date, num_hunters)
       IN ret' = [op |-> "check_availability", field_id |-> field_id, date |-> date,
                  num_hunters |-> num_hunters, ok |-> a.ok, message |-> a.message,
                  spots |-> a.spots]
    /\ pc' = [pc EXCEPT ![s] = "done"]
    /\ UNCHANGED <<fields, bookings, req>>
    /\ UNCHANGED hunt

\* ----------------------------------------------------------- is_quota_exhausted
\* variant: one exhausted species is enough
is_quota_exhausted_any(field) ==
    IF field.field_type # "diy-leased" THEN FALSE
    ELSE IF field.quarry_species # <<>>
    THEN \E i \in DOMAIN field.quarry_species : field.quarry_species[i].remaining <= 0
    ELSE IF field.quarry_remaining # Null
    THEN field.quarry_remaining[1] <= 0
    ELSE FALSE

is_quota_exhausted(field) ==
    IF field.field_type # "diy-leased" THEN FALSE
    ELSE IF field.quarry_species # <<>>
    THEN \A i \in DOMAIN field.quarry_species : field.quarry_species[i].remaining <= 0
    ELSE IF field.quarry_remaining # Null
    THEN field.quarry_remaining[1] <= 0
    ELSE FALSE

\* variant: the call drops the exhausted entries from the species list
IsQuotaExhaustedCall_prunes(s, field_id) ==
    /\ pc[s] = "idle"
    /\ pc' = [pc EXCEPT ![s] = "done"]
    /\ req' = [req EXCEPT ![s] = [NoReq EXCEPT !.field_id = field_id]]
    /\ ret' = [op |-> "is_quota_exhausted", field_id |-> field_id,
               result |-> is_quota_exhausted(fields[field_id])]
    /\ fields' = [fields EXCEPT ![field_id].quarry_species =
                      SelectSeq(@, LAMBDA q : q.remaining > 0)]
    /\ UNCHANGED bookings
    /\ UNCHANGED hunt

\* a call of the helper on the row of a field: it reads the row it is
\* handed and touches no table
IsQuotaExhaustedCall(s, field_id) ==
    /\ pc[s] = "idle"
    /\ pc' = [pc EXCEPT ![s] = "done"]
    /\ req' = [req EXCEPT ![s] = [NoReq EXCEPT !.field_id = field_id]]
    /\ ret' = [op |-> "is_quota_exhausted", field_id |-> field_id,
               result |-> is_quota_exhausted(fields[field_id])]
    /\ UNCHANGED <<fields, bookings>>
    /\ UNCHANGED hunt

\* ------------------------------- show_diy_field_details / show_subsidised_field_details
booked_dates(field_id) ==
    {bookings[b].date : b \in {x \in BookingIds : /\ bookings[x].field_id = field_id
                                                  /\ bookings[x].status \in {"confirmed", "pending"}}}

date_available(field_id, date) ==
    /\ date \notin fields[field_id].blocked_dates
    /\ date \notin booked_dates(field_id)

\* the run in which "Confirm Booking" is clicked: the button is only drawn
\* when the date is free and the hunter has no booking on it
show_diy_field_details(s, field_id, hunter_id, date) ==
    /\ pc[s] = "idle"
    /\ RoomForBooking
    /\ fields[field_id].field_type # "subsidised"
    /\ date_available(field_id, date)
    /\ HunterBookingsOnDate(hunter_id, date) = {}
    /\ ~is_quota_exhausted(fields[field_id])
    /\ CallCreateBooking(s, field_id, hunter_id, date, 1, FALSE)
    /\ ret' = NoRet
    /\ UNCHANGED <<fields, bookings>>
    /\ UNCHANGED hunt

show_subsidised_field_details(s, field_id, hunter_id, date) ==
    /\ pc[s] = "idle"
    /\ RoomForBooking
    /\ fields[field_id].field_type = "subsidised"
    /\ date_available(field_id, date)
    /\ HunterBookingsOnDate(hunter_id, date) = {}
    /\ CallCreateBooking(s, field_id, hunter_id, date, 1, FALSE)
    /\ ret' = NoRet
    /\ UNCHANGED <<fields, bookings>>
    /\ UNCHANGED hunt

\* ------------------------------------------- admin_dashboard: create booking form
admin_create_booking(s, field_id, hunter_id, date, num_hunters, override_double_booking) ==
    /\ pc[s] = "idle"
    /\ RoomForBooking
    /\ ~(HunterBookingsOnDate(hunter_id, date) # {} /\ ~override_double_booking)
    /\ CallCreateBooking(s, field_id, hunter_id, date, num_hunters, override_double_booking)
    /\ ret' = NoRet
    /\ UNCHANGED <<fields, bookings>>
    /\ UNCHANGED hunt

\* --------------------------------------------------------------- create_booking
field_name(field_id) == IF field_id \in DOMAIN fields THEN field_id ELSE None

InsertBooking(s) ==
    /\ bookings' = Append(bookings, Booking(req[s].field_id, req[s].hunter_id, req[s].date,
                                            req[s].num_hunters, initial_status(req[s].field_id)))
    /\ ret' = [op |-> "create_booking", field_id |-> req[s].field_id,
               booking |-> Len(bookings) + 1, message |-> "Booking created successfully",
               admin_override |-> req[s].admin_override, field_name |-> None]
    /\ pc' = [pc EXCEPT ![s] = "done"]
    /\ req' = [req EXCEPT ![s] = NoReq]
    /\ UNCHANGED fields
    /\ UNCHANGED hunt

\* first database session of create_booking: the double-booking lookup; with
\* admin_override there is no lookup and the call goes straight to the insert
create_booking_check(s, fails) ==
    /\ pc[s] = "cb_start"
    /\ IF ChecksDoubleBooking(req[s].admin_override)
       THEN IF check_hunter_has_booking_on_date(req[s].hunter_id, req[s].date, fails) # {}
            THEN /\ \E existing_booking \in
                         check_hunter_has_booking_on_date(req[s].hunter_id, req[s].date, fails) :
                       ret' = [op |-> "create_booking", field_id |-> req[s].field_id,
                               booking |-> None, message |-> "Double booking prevented",
                               admin_override |-> FALSE,
                               field_name |-> field_name(bookings[existing_booking].field_id)]
                 /\ pc' = [pc EXCEPT ![s] = "done"]
                 /\ req' = [req EXCEPT ![s] = NoReq]
                 /\ UNCHANGED <<fields, bookings>>
                 /\ UNCHANGED hunt
            ELSE /\ pc' = [pc EXCEPT ![s] = "cb_insert"]
                 /\ ret' = NoRet
                 /\ UNCHANGED <<fields, bookings, req>>
                 /\ UNCHANGED hunt
       ELSE InsertBooking(s)

\* second database session of create_booking: field lookup, insert, commit
create_booking_insert(s) ==
    /\ pc[s] = "cb_insert"
    /\ InsertBooking(s)

\* ---------------------------------------------------------- status flows
CallUpdateBookingStatus(s, booking_id, status) ==
    /\ pc' = [pc EXCEPT ![s] = "ubs"]
    /\ req' = [req EXCEPT ![s] = [NoReq EXCEPT !.booking_id = booking_id, !.status = status]]
    /\ ret' = NoRet
    /\ UNCHANGED <<fields, bookings>>
    /\ UNCHANGED hunt

\* outfitter_dashboard: the run that read the booking as pending and in which
\* "Approve Booking" / "Reject Booking" was clicked
outfitter_approve(s, booking_id) ==
    /\ pc[s] = "idle"
    /\ booking_id \in BookingIds
    /\ bookings[booking_id].status = "pending"
    /\ CallUpdateBookingStatus(s, booking_id, "confirmed")

outfitter_reject(s, booking_id) ==
    /\ pc[s] = "idle"
    /\ booking_id \in BookingIds
    /\ bookings[booking_id].status = "pending"
    /\ CallUpdateBookingStatus(s, booking_id, "rejected")

\* hunter_dashboard: the run that read the booking as confirmed and in which
\* "Cancel" was clicked
hunter_cancel(s, booking_id) ==
    /\ pc[s] = "idle"
    /\ booking_id \in BookingIds
    /\ bookings[booking_id].status = "confirmed"
    /\ CallUpdateBookingStatus(s, booking_id, "cancelled")

\* admin_dashboard: the status editor, any status for any booking
admin_update_status(s, booking_id, new_status) ==
    /\ pc[s] = "idle"
    /\ booking_id \in BookingIds
    /\ CallUpdateBookingStatus(s, booking_id, new_status)

update_booking_status(s) ==
    /\ pc[s] = "ubs"
    /\ bookings' = [bookings EXCEPT ![req[s].booking_id].status = req[s].status]
    /\ pc' = [pc EXCEPT ![s] = "idle"]
    /\ req' = [req EXCEPT ![s] = NoReq]
    /\ ret' = NoRet
    /\ UNCHANGED fields
    /\ UNCHANGED hunt

\* ------------------------------------------------- update_field_blocked_dates
\* variant: the helper writes the whole row back, the quota as created
block_date_resets_quota(s, field_id, date) ==
    /\ pc[s] = "idle"
    /\ date \notin fields[field_id].blocked_dates
    /\ fields' = [fields EXCEPT ![field_id].blocked_dates = @ \cup {date},
                                ![field_id].quarry_species =
                                    [i \in DOMAIN fields[field_id].quarry_species |->
                                        Quarry(fields[field_id].quarry_species[i].species,
                                               fields[field_id].quarry_species[i].total)]]
    /\ ret' = NoRet
    /\ UNCHANGED <<bookings, pc, req>>
    /\ UNCHANGED hunt

block_date(s, field_id, date) ==
    /\ pc[s] = "idle"
    /\ date \notin fields[field_id].blocked_dates
    /\ fields' = [fields EXCEPT ![field_id].blocked_dates = @ \cup {date}]
    /\ ret' = NoRet
    /\ UNCHANGED <<bookings, pc, req>>
    /\ UNCHANGED hunt

unblock_date(s, field_id, date) ==
    /\ pc[s] = "idle"
    /\ date \in fields[field_id].blocked_dates
    /\ fields' = [fields EXCEPT ![field_id].blocked_dates = @ \ {date}]
    /\ ret' = NoRet
    /\ UNCHANGED <<bookings, pc, req>>
    /\ UNCHANGED hunt

\* ------------------------------------------ hunter_dashboard: "My Active Hunts Today"
get_todays_bookings_for_hunter(hunter_id) ==
    {b \in BookingIds : /\ bookings[b].hunter_id = hunter_id
                        /\ bookings[b].date = today
                        /\ bookings[b].status = "confirmed"}

\* the rows the query of get_hunt_session_by_booking selects; .first() returns
\* one of them
HuntSessionsOfBooking(booking_id) ==
    {x \in HuntSessionIds : hunt_sessions[x].booking_id = booking_id}

\* a run of the tab starts by reading the hunter's confirmed bookings of
\* today; the run is followed for one booking of that list
hunter_today(s, hunter_id, booking_id) ==
    /\ pc[s] = "idle"
    /\ booking_id \in get_todays_bookings_for_hunter(hunter_id)
    /\ pc' = [pc EXCEPT ![s] = "tv_lookup"]
    /\ req' = [req EXCEPT ![s] = [NoReq EXCEPT !.booking_id = booking_id,
                                                !.hunter_id = hunter_id,
                                                !.field_id = bookings[booking_id].field_id]]
    /\ ret' = NoRet
    /\ UNCHANGED <<fields, bookings>>
    /\ UNCHANGED hunt

get_hunt_session_by_booking(s) ==
    /\ pc[s] = "tv_lookup"
    /\ IF HuntSessionsOfBooking(req[s].booking_id) # {}
       THEN \E x \in HuntSessionsOfBooking(req[s].booking_id) :
               /\ req' = [req EXCEPT ![s].session_id = x,
                                     ![s].hunt_status = hunt_sessions[x].status]
               /\ pc' = [pc EXCEPT ![s] = "tv_view"]
       ELSE /\ pc' = [pc EXCEPT ![s] = "tv_create"]
            /\ UNCHANGED req
    /\ ret' = NoRet
    /\ UNCHANGED <<fields, bookings>>
    /\ UNCHANGED hunt

\* the lookup found no session: the run creates one
create_hunt_session(s) ==
    /\ pc[s] = "tv_create"
    /\ Len(hunt_sessions) < MaxSessions
    /\ hunt_sessions' = Append(hunt_sessions,
                               HuntSession(req[s].booking_id, req[s].hunter_id, req[s].field_id))
    /\ req' = [req EXCEPT ![s].session_id = Len(hunt_sessions) + 1,
                          ![s].hunt_status = "not_started"]
    /\ pc' = [pc EXCEPT ![s] = "tv_view"]
    /\ ret' = [op |-> "create_hunt_session", session |-> Len(hunt_sessions) + 1,
               booking_id |-> req[s].booking_id]
    /\ UNCHANGED <<fields, bookings, hunt_reports, today, animal_tags, files, session_state>>

\* the run was a plain view of the tab: nothing was clicked
render_today(s) ==
    /\ pc[s] = "tv_view"
    /\ pc' = [pc EXCEPT ![s] = "idle"]
    /\ req' = [req EXCEPT ![s] = NoReq]
    /\ ret' = NoRet
    /\ UNCHANGED <<fields, bookings>>
    /\ UNCHANGED hunt

\* "Start Day" was clicked: the button is drawn when the session read by the
\* run is not_started; start_hunt_session itself tests nothing but the id
start_hunt_session(s) ==
    /\ pc[s] = "tv_view"
    /\ req[s].hunt_status = "not_started"
    /\ IF req[s].session_id \in HuntSessionIds
       THEN hunt_sessions' = [hunt_sessions EXCEPT ![req[s].session_id].start_time = <<today>>,
                                                   ![req[s].session_id].status = "active"]
       ELSE UNCHANGED hunt_sessions
    /\ pc' = [pc EXCEPT ![s] = "done"]
    /\ ret' = [op |-> "start_hunt_session", session |-> req[s].session_id]
    /\ UNCHANGED <<fields, bookings, req, hunt_reports, today, animal_tags, files, session_state>>

\* "Finish Hunt" was clicked: the button is drawn when the session read by
\* the run is active; the click opens the report form for the next runs
finish_hunt(s) ==
    /\ pc[s] = "tv_view"
    /\ req[s].hunt_status = "active"
    /\ session_state' = [session_state EXCEPT ![s].finishing_hunt = req[s].session_id]
    /\ pc' = [pc EXCEPT ![s] = "idle"]
    /\ req' = [req EXCEPT ![s] = NoReq]
    /\ ret' = NoRet
    /\ UNCHANGED <<fields, bookings, hunt_sessions, hunt_reports, today, animal_tags, files>>
\* ------------------------------------------------------- show_hunt_report_form
\* the species the form offers for each animal
species_options(field) ==
    IF field.field_type = "diy-leased" /\ field.quarry_species # <<>>
    THEN {field.quarry_species[i].species : i \in DOMAIN field.quarry_species}
    ELSE {"Fox"}

\* the animals a hunter can enter: one species per animal
Animals(options) == UNION {[1..n -> options] : n \in 0..MaxHarvest}

\* the keys of species_count, in the order of their first animal
RECURSIVE SpeciesSeen(_)
SpeciesSeen(animals) ==
    IF animals = <<>> THEN <<>>
    ELSE LET before == SpeciesSeen(SubSeq(animals, 1, Len(animals) - 1))
             species == animals[Len(animals)]
         IN IF \E i \in DOMAIN before : before[i] = species
            THEN before ELSE Append(before, species)

species_count(animals, species) == Cardinality({i \in DOMAIN animals : animals[i] = species})

\* report_data as the form builds it on "Save and Close", no review left
report_data(animals) ==
    [animals_harvested |-> Len(animals),
     species_harvested |-> [i \in DOMAIN SpeciesSeen(animals) |->
                               [species |-> SpeciesSeen(animals)[i],
                                quantity |-> species_count(animals, SpeciesSeen(animals)[i])]],
     review_rating |-> Null, review_text |-> ""]

\* ------------------------------------------------------------ create_hunt_report
Max(a, b) == IF a >= b THEN a ELSE b

\* the entry the inner loop stops at: the first one of that species, 0 if none
FirstQuarry(quarry_species, species_name) ==
    IF \E i \in DOMAIN quarry_species : quarry_species[i].species = species_name
    THEN CHOOSE i \in DOMAIN quarry_species :
            /\ quarry_species[i].species = species_name
            /\ \A j \in 1..(i - 1) : quarry_species[j].species # species_name
    ELSE 0

\* variant: the remaining quota is not floored at 0
DepleteOne_no_floor(quarry_species, harvested) ==
    LET i == FirstQuarry(quarry_species, harvested.species)
    IN IF i = 0 THEN quarry_species
       ELSE [quarry_species EXCEPT ![i].remaining = @ - harvested.quantity]

DepleteOne(quarry_species, harvested) ==
    LET i == FirstQuarry(quarry_species, harvested.species)
    IN IF i = 0 THEN quarry_species
       ELSE [quarry_species EXCEPT ![i].remaining = Max(0, @ - harvested.quantity)]

RECURSIVE DepleteAll(_, _)
\* variant: only the first harvested pair is applied
DepleteAll_first_pair_only(quarry_species, species_harvested) ==
    IF species_harvested = <<>> THEN quarry_species
    ELSE DepleteOne(quarry_species, Head(species_harvested))

DepleteAll(quarry_species, species_harvested) ==
    IF species_harvested = <<>> THEN quarry_species
    ELSE DepleteAll(DepleteOne(quarry_species, Head(species_harvested)),
                    Tail(species_harvested))

\* variant: the scalar quota is not floored at 0
DepleteScalar_no_floor(quarry_remaining, animals_harvested) ==
    <<quarry_remaining[1] - animals_harvested>>

DepleteScalar(quarry_remaining, animals_harvested) ==
    <<Max(0, quarry_remaining[1] - animals_harvested)>>

\* the field row as create_hunt_report leaves it
update_quarry(field, data) ==
    IF field.field_type = "diy-leased"
    THEN IF field.quarry_species # <<>>
         THEN [field EXCEPT !.quarry_species = DepleteAll(@, data.species_harvested)]
         ELSE IF field.quarry_remaining # Null
         THEN [field EXCEPT !.quarry_remaining = DepleteScalar(@, data.animals_harvested)]
         ELSE field
    ELSE field

\* one call of the helper: the report row and the quota, committed together;
\* an exception (fails) leaves the tables as they were and returns None
CreateHuntReport(session_id, field_id, hunter_id, data, fails) ==
    /\ Len(hunt_reports) < MaxReports
    /\ IF fails
       THEN /\ UNCHANGED <<fields, hunt_reports>>
            /\ ret' = [op |-> "create_hunt_report", report |-> None, session_id |-> session_id,
                       field_id |-> field_id]
       ELSE /\ hunt_reports' = Append(hunt_reports,
                                      HuntReport(session_id, field_id, hunter_id, data))
            /\ fields' = IF field_id \in DOMAIN fields
                         THEN [fields EXCEPT ![field_id] = update_quarry(@, data)]
                         ELSE fields
            /\ ret' = [op |-> "create_hunt_report", report |-> Len(hunt_reports) + 1,
                       session_id |-> session_id, field_id |-> field_id]

\* a direct call of the helper, with any report data; the helper looks at
\* neither the hunt session nor the hunter
CreateHuntReportCall(s, session_id, field_id, hunter_id, animals, fails) ==
    /\ pc[s] = "idle"
    /\ CreateHuntReport(session_id, field_id, hunter_id, report_data(animals), fails)
    /\ pc' = [pc EXCEPT ![s] = "done"]
    /\ UNCHANGED <<bookings, req, hunt_sessions, today, animal_tags, files, session_state>>

\* ---------------------------------------- create_hunt_report, statement by statement
\* where a call of the helper can raise: nowhere, before its commit (the
\* statements of the try block up to db.commit()), or after it (db.refresh)
FailurePoints == {"none", "before_commit", "after_commit"}

\* what the transaction writes into the field row as it is now, computed
\* from the row it read: the species list is written back whenever the row
\* read has one, the scalar only when its value changes
quarry_write(field, read, data) ==
    IF read.field_type = "diy-leased"
    THEN IF read.quarry_species # <<>>
         THEN [field EXCEPT !.quarry_species = DepleteAll(read.quarry_species,
                                                          data.species_harvested)]
         ELSE IF /\ read.quarry_remaining # Null
                 /\ DepleteScalar(read.quarry_remaining, data.animals_harvested)
                       # read.quarry_remaining
         THEN [field EXCEPT !.quarry_remaining = DepleteScalar(read.quarry_remaining,
                                                               data.animals_harvested)]
         ELSE field
    ELSE field

\* variant: the UPDATE of the quota is committed on its own, ahead of the
\* report
rolled_back_update_kept(field_id, read, data) ==
    IF read # Null /\ field_id \in DOMAIN fields
    THEN [fields EXCEPT ![field_id] = quarry_write(@, read[1], data)]
    ELSE fields

\* the fields table after db.close() without a commit: the pending UPDATE is
\* discarded with the pending INSERT
rolled_back(field_id, read, data) == fields

\* the helper up to its query of the field row (db_helpers.py:859): the
\* report is pending in the database session, the row is read
create_hunt_report_read(s, session_id, field_id, hunter_id, data) ==
    /\ pc[s] = "idle"
    /\ Len(hunt_reports) < MaxReports
    /\ pc' = [pc EXCEPT ![s] = "chr_txn"]
    /\ req' = [req EXCEPT ![s] = [NoReq EXCEPT !.session_id = session_id,
                                               !.field_id = field_id,
                                               !.hunter_id = hunter_id,
                                               !.report_data = data,
                                               !.field_row = IF field_id \in DOMAIN fields
                                                             THEN <<fields[field_id]>>
                                                             ELSE Null]]
    /\ ret' = NoRet
    /\ UNCHANGED <<fields, bookings, hunt_sessions, hunt_reports, today, animal_tags, files,
                   session_state>>

\* the rest of the helper: the quota computed from the row read, and the
\* commit of report and quota in one transaction
create_hunt_report_commit(s, failure) ==
    /\ pc[s] = "chr_txn"
    /\ IF failure = "before_commit"
       THEN /\ fields' = rolled_back(req[s].field_id, req[s].field_row, req[s].report_data)
            /\ UNCHANGED hunt_reports
       ELSE /\ Len(hunt_reports) < MaxReports
            /\ hunt_reports' = Append(hunt_reports,
                                      HuntReport(req[s].session_id, req[s].field_id,
                                                 req[s].hunter_id, req[s].report_data))
            /\ fields' = IF req[s].field_row # Null /\ req[s].field_id \in DOMAIN fields
                         THEN [fields EXCEPT ![req[s].field_id] =
                                  quarry_write(@, req[s].field_row[1], req[s].report_data)]
                         ELSE fields
    /\ ret' = [op |-> "create_hunt_report",
               report |-> IF failure = "none" THEN Len(hunt_reports) + 1 ELSE None,
               session_id |-> req[s].session_id, field_id |-> req[s].field_id]
    /\ pc' = [pc EXCEPT ![s] = "done"]
    /\ req' = [req EXCEPT ![s] = NoReq]
    /\ UNCHANGED <<bookings, hunt_sessions, today, animal_tags, files, session_state>>

\* ------------------------------------------------------------ update_hunt_report
\* the review a hunter can leave on the report form: none, or a rating on
\* the slider with a text
Reviews == {[review_rating |-> Null, review_text |-> ""],
            [review_rating |-> <<5>>, review_text |-> "good"]}

\* the arguments of update_hunt_report: None, or a value
RatingArgs == {Null, <<1>>}
TextArgs == {Null, <<"poor">>}

\* variant: the row is written back with its harvest count reset
reviewed_resets_harvest(report, review_rating, review_text) ==
    [report EXCEPT !.review_rating = IF review_rating # Null THEN review_rating ELSE @,
                   !.review_text = IF review_text # Null THEN review_text[1] ELSE @,
                   !.animals_harvested = 0]

\* the report row with the arguments that are not None assigned
reviewed(report, review_rating, review_text) ==
    [report EXCEPT !.review_rating = IF review_rating # Null THEN review_rating ELSE @,
                   !.review_text = IF review_text # Null THEN review_text[1] ELSE @]

\* a call of the helper; an exception (fails) commits nothing
update_hunt_report(s, report_id, review_rating, review_text, fails) ==
    /\ pc[s] = "idle"
    /\ IF report_id \in HuntReportIds /\ ~fails
       THEN /\ hunt_reports' = [hunt_reports EXCEPT ![report_id] =
                                    reviewed(@, review_rating, review_text)]
            /\ ret' = [op |-> "update_hunt_report", report |-> report_id]
       ELSE /\ UNCHANGED hunt_reports
            /\ ret' = [op |-> "update_hunt_report", report |-> None]
    /\ pc' = [pc EXCEPT ![s] = "done"]
    /\ req' = [req EXCEPT ![s] = [NoReq EXCEPT !.report_id = report_id]]
    /\ UNCHANGED <<fields, bookings, hunt_sessions, today, animal_tags, files, session_state>>

\* the administrator's "Delete Review": the helper called with None for
\* both the rating and the text
admin_delete_review(s, report_id) == update_hunt_report(s, report_id, Null, Null, FALSE)

\* a call of create_hunt_report whose data carry a review
create_reviewed_report(s, field_id, animals, review) ==
    /\ pc[s] = "idle"
    /\ CreateHuntReport(1, field_id, 1,
                        [report_data(animals) EXCEPT !.review_rating = review.review_rating,
                                                     !.review_text = review.review_text],
                        FALSE)
    /\ pc' = [pc EXCEPT ![s] = "done"]
    /\ UNCHANGED <<bookings, req, hunt_sessions, today, animal_tags, files, session_state>>

\* "Save and Close": the form is drawn when this browser session has the hunt
\* session marked as finishing; the run calls create_hunt_report, ignores
\* what it returns and goes on to end_hunt_session
create_hunt_report(s, animals, fails) ==
    /\ pc[s] = "tv_view"
    /\ session_state[s].finishing_hunt = req[s].session_id
    /\ animals \in Animals(species_options(fields[req[s].field_id]))
    /\ CreateHuntReport(req[s].session_id, req[s].field_id, req[s].hunter_id,
                        report_data(animals), fails)
    /\ pc' = [pc EXCEPT ![s] = "rep_end"]
    /\ req' = [req EXCEPT ![s].report_data = report_data(animals)]
    /\ UNCHANGED <<bookings, hunt_sessions, today, animal_tags, files, session_state>>

\* end_hunt_session tests nothing but the id
end_hunt_session(s) ==
    /\ pc[s] = "rep_end"
    /\ IF req[s].session_id \in HuntSessionIds
       THEN hunt_sessions' = [hunt_sessions EXCEPT ![req[s].session_id].end_time = <<today>>,
                                                   ![req[s].session_id].status = "completed"]
       ELSE UNCHANGED hunt_sessions
    /\ session_state' = [session_state EXCEPT ![s].finishing_hunt = None]
    /\ pc' = [pc EXCEPT ![s] = "done"]
    /\ ret' = [op |-> "end_hunt_session", session |-> req[s].session_id]
    /\ UNCHANGED <<fields, bookings, req, hunt_reports, today, animal_tags, files>>

\* "Cancel" on the report form
cancel_report(s) ==
    /\ pc[s] = "tv_view"
    /\ session_state[s].finishing_hunt = req[s].session_id
    /\ session_state' = [session_state EXCEPT ![s].finishing_hunt = None]
    /\ pc' = [pc EXCEPT ![s] = "idle"]
    /\ req' = [req EXCEPT ![s] = NoReq]
    /\ ret' = NoRet
    /\ UNCHANGED <<fields, bookings, hunt_sessions, hunt_reports, today, animal_tags, files>>

\* -------------------------------------------------------------- animal tags
\* uuid4: any of the values it can draw, whatever was drawn before
generate_unique_tag_number == 1..NumTagNumbers

\* what the tag form can carry: a species typed in, a condition selected
TagForms == {[species |-> "Red Grouse", condition |-> "Excellent"],
             [species |-> "Fox", condition |-> "Diseased"]}

\* the file each helper writes for a tag number
qr_path(tag_number) == <<"qr_codes", tag_number, "png">>
photo_path_of(tag_number) == <<"animal_photos", tag_number, "jpg">>

\* generate_qr_code and save_animal_photo write (or overwrite) their file
generate_qr_code(stored, tag_number) == stored \cup {qr_path(tag_number)}
save_animal_photo(stored, tag_number) == stored \cup {photo_path_of(tag_number)}

AnimalTag(tag_number, hunt_report_id, hunter_id, field_id, species, condition, photo_path, qr_code_path) ==
    [id |-> Len(animal_tags) + 1, tag_number |-> tag_number,
     hunt_report_id |-> hunt_report_id, hunter_id |-> hunter_id, field_id |-> field_id,
     species |-> species, condition |-> condition, photo_path |-> photo_path,
     qr_code_path |-> qr_code_path, created_at |-> today]

\* variant: the table has no unique index on tag_number
animal_tags_accepts_any_number(tag) ==
    /\ tag.hunt_report_id \in HuntReportIds
    /\ tag.hunter_id \in Hunters
    /\ tag.field_id \in Fields

\* the constraints of the table: tag_number unique, the three foreign keys
animal_tags_accepts(tag) ==
    /\ \A i \in DOMAIN animal_tags : animal_tags[i].tag_number # tag.tag_number
    /\ tag.hunt_report_id \in HuntReportIds
    /\ tag.hunter_id \in Hunters
    /\ tag.field_id \in Fields

\* where a call of create_animal_tag can raise: in generate_qr_code, in
\* save_animal_photo, at the commit
TagFailurePoints == {"none", "qr", "photo", "commit"}

\* one call: the number is drawn, the QR image and then the photo are
\* written, the row is inserted and committed; whatever raises, the helper
\* returns None and the files already written stay
create_animal_tag(s, hunt_report_id, hunter_id, field_id, species, condition, photo_bytes, failure) ==
    /\ pc[s] = "idle"
    /\ Len(animal_tags) < MaxTags
    /\ \E tag_number \in generate_unique_tag_number :
          LET with_qr == generate_qr_code(files, tag_number)
              with_photo == IF photo_bytes THEN save_animal_photo(with_qr, tag_number)
                            ELSE with_qr
              new_tag == AnimalTag(tag_number, hunt_report_id, hunter_id, field_id, species,
                                   condition,
                                   IF photo_bytes THEN <<photo_path_of(tag_number)>> ELSE Null,
                                   <<qr_path(tag_number)>>)
              committed == /\ failure \notin {"qr", "commit"}
                           /\ ~(failure = "photo" /\ photo_bytes)
                           /\ animal_tags_accepts(new_tag)
          IN /\ req' = [req EXCEPT ![s] = [NoReq EXCEPT !.report_id = hunt_report_id,
                                               !.hunter_id = hunter_id, !.field_id = field_id,
                                               !.species = species, !.condition = condition,
                                               !.photo_bytes = photo_bytes,
                                               !.tag_number = tag_number]]
             /\ IF failure = "qr"
                THEN UNCHANGED <<files, animal_tags>>
                ELSE IF failure = "photo" /\ photo_bytes
                THEN files' = with_qr /\ UNCHANGED animal_tags
                ELSE IF ~committed
                THEN files' = with_photo /\ UNCHANGED animal_tags
                ELSE files' = with_photo /\ animal_tags' = Append(animal_tags, new_tag)
             /\ ret' = [op |-> "create_animal_tag",
                        tag |-> IF committed THEN new_tag.id ELSE None]
    /\ pc' = [pc EXCEPT ![s] = "done"]
    /\ UNCHANGED <<fields, bookings, hunt_sessions, hunt_reports, today, session_state>>

\* the id of the first row with the number, None when there is none or when
\* the query raises
get_animal_tag_by_tag_number(tag_number, fails) ==
    IF ~fails /\ \E i \in DOMAIN animal_tags : animal_tags[i].tag_number = tag_number
    THEN CHOOSE i \in DOMAIN animal_tags :
            /\ animal_tags[i].tag_number = tag_number
            /\ \A j \in DOMAIN animal_tags : animal_tags[j].tag_number = tag_number => i <= j
    ELSE None

\* the public page: no number in the address, a tag found, or no tag
show_public_tag_verification(s, tag_number, fails) ==
    /\ pc[s] = "idle"
    /\ pc' = [pc EXCEPT ![s] = "done"]
    /\ req' = [req EXCEPT ![s] = [NoReq EXCEPT !.tag_number = tag_number]]
    /\ ret' = IF tag_number = None
              THEN [op |-> "show_public_tag_verification", tag |-> None, page |-> "Scan a QR code"]
              ELSE LET tag == get_animal_tag_by_tag_number(tag_number, fails)
                   IN [op |-> "show_public_tag_verification", tag |-> tag,
                       page |-> IF tag # None THEN "Tag Verified" ELSE "Tag Not Found"]
    /\ UNCHANGED <<fields, bookings>>
    /\ UNCHANGED hunt

\* ------------------------------------------------------------ specifications
HunterBooking(s) ==
    \E f \in Fields, h \in Hunters, d \in Dates :
        \/ \E n \in 1..MaxParty : show_booking_modal(s, f, h, d, n)
        \/ show_diy_field_details(s, f, h, d)
        \/ show_subsidised_field_details(s, f, h, d)

PaidBooking(s) == \E clicked \in BOOLEAN : complete_booking(s, clicked)

CreateBookingSteps(s) ==
    \/ \E fails \in BOOLEAN : create_booking_check(s, fails)
    \/ create_booking_insert(s)

StatusFlows(s) ==
    \/ \E b \in 1..MaxBookings : outfitter_approve(s, b)
    \/ \E b \in 1..MaxBookings : outfitter_reject(s, b)
    \/ \E b \in 1..MaxBookings : hunter_cancel(s, b)
    \/ update_booking_status(s)

BlockedDates(s) ==
    \E f \in Fields, d \in Dates : block_date(s, f, d) \/ unblock_date(s, f, d)

AdminCreate(s) ==
    \E f \in Fields, h \in Hunters, d \in Dates, n \in 1..MaxParty, o \in BOOLEAN :
        admin_create_booking(s, f, h, d, n, o)

AdminStatus(s) ==
    \E b \in 1..MaxBookings, st \in BookingStatuses : admin_update_status(s, b, st)

DirectCalls(s) ==
    \E f \in FieldIds, d \in Dates, n \in 1..MaxParty : CheckAvailability(s, f, d, n)

Flows(s) ==
    \/ HunterBooking(s) \/ PaidBooking(s) \/ CreateBookingSteps(s) \/ StatusFlows(s)
    \/ EndRun(s)

\* the booking operations, one interaction at a time: a single browser session
\* of hunters, operators and the administrator's booking form
Next == Flows("s1") \/ BlockedDates("s1") \/ AdminCreate("s1") \/ DirectCalls("s1")

Spec == Init /\ [][Next]_vars

\* hunters and operators booking, approving, rejecting and cancelling, the
\* script runs of the two sessions interleaved
NextFlows == \E s \in Sessions : Flows(s)

SpecFlows == Init /\ [][NextFlows]_vars

HuntToday(s) ==
    \/ \E h \in Hunters, b \in 1..MaxBookings : hunter_today(s, h, b)
    \/ get_hunt_session_by_booking(s)
    \/ create_hunt_session(s)
    \/ render_today(s)
    \/ start_hunt_session(s)
    \/ finish_hunt(s)
    \/ end_hunt_session(s)
    \/ cancel_report(s)

\* the report of a hunt that took nothing
EmptyHandedReport(s) == \E fails \in BOOLEAN : create_hunt_report(s, <<>>, fails)

\* hunters book the current day on their pages, operators approve
HuntBooking(s) ==
    \/ \E f \in Fields, h \in Hunters :
          show_diy_field_details(s, f, h, today) \/ show_subsidised_field_details(s, f, h, today)
    \/ CreateBookingSteps(s)
    \/ \E b \in 1..MaxBookings : outfitter_approve(s, b)
    \/ \E b \in 1..MaxBookings : hunter_cancel(s, b)
    \/ update_booking_status(s)

\* the hunt of the day: the bookings of the day, made, approved and cancelled
\* in one browser session, and the hunters' "Active Hunts Today" tabs, the
\* script runs of the two sessions interleaved
NextHunt ==
    \/ HuntBooking("s1")
    \/ \E s \in Sessions : HuntToday(s) \/ EmptyHandedReport(s) \/ EndRun(s)

SpecHunt == Init /\ [][NextHunt]_vars

\* a report for any ground, of a bag of the species its form offers and of
\* one species that no quota list names
DirectReports(s) ==
    \E f \in Fields, animals \in Animals(Species), fails \in BOOLEAN :
        /\ \A i \in DOMAIN animals : animals[i] \in species_options(fields[f]) \cup {"Fox"}
        /\ CreateHuntReportCall(s, 1, f, 1, animals, fails)

\* hunt reports filed one after the other
NextQuota == DirectReports("s1") \/ EndRun("s1")

SpecQuota == InitQuota /\ [][NextQuota]_vars

\* a call of the helper for any ground, with a bag of the species its form
\* offers, and a call for a field that does not exist
ReportCalls(s) ==
    \/ \E f \in FieldIds, animals \in Animals(Species) :
          /\ f \in Fields =>
                \A i \in DOMAIN animals : animals[i] \in species_options(fields[f])
          /\ f \notin Fields => animals = <<>>
          /\ create_hunt_report_read(s, 1, f, 1, report_data(animals))
    \/ \E failure \in FailurePoints : create_hunt_report_commit(s, failure)

\* the quota ledger: reports filed from two browser sessions, the
\* statements of their calls interleaved
NextLedger == \E s \in Sessions : ReportCalls(s) \/ EndRun(s)

SpecLedger == InitQuota /\ [][NextLedger]_vars

\* reports of at most one animal, with or without a review
ReviewedReports(s) ==
    \E f \in Fields, animals \in Animals(Species), review \in Reviews :
        /\ Len(animals) <= 1
        /\ \A i \in DOMAIN animals : animals[i] \in species_options(fields[f])
        /\ create_reviewed_report(s, f, animals, review)

\* the review edited by its hunter or by an administrator, the report id
\* any id, one of no report included
ReviewEdits(s) ==
    \/ \E report_id \in HuntReportIds : admin_delete_review(s, report_id)
    \/ \E report_id \in 1..(MaxReports + 1), review_rating \in RatingArgs,
          review_text \in TextArgs, fails \in BOOLEAN :
           update_hunt_report(s, report_id, review_rating, review_text, fails)

\* the quota helper called on any ground from two browser sessions
NextExhausted == \E s \in Sessions : (\E f \in Fields : IsQuotaExhaustedCall(s, f)) \/ EndRun(s)

SpecExhausted == InitExhausted /\ [][NextExhausted]_vars

\* a report of one animal filed for the first ground
TaggedReports(s) ==
    create_reviewed_report(s, 1, <<CHOOSE sp \in species_options(fields[1]) : TRUE>>,
                           [review_rating |-> Null, review_text |-> ""])

\* "Create Animal Tag" for a report with a harvest, with the report's field
\* and hunter and with a photo
TagCalls(s) ==
    \E hunt_report_id \in HuntReportIds, form \in TagForms, failure \in TagFailurePoints :
        /\ hunt_reports[hunt_report_id].animals_harvested > 0
        /\ create_animal_tag(s, hunt_report_id, hunt_reports[hunt_report_id].hunter_id,
                             hunt_reports[hunt_report_id].field_id, form.species,
                             form.condition, TRUE, failure)

\* the public page opened with no number or with any number
Verifications(s) ==
    \E tag_number \in generate_unique_tag_number \cup {None}, fails \in BOOLEAN :
        show_public_tag_verification(s, tag_number, fails)

NextTags ==
    TaggedReports("s1") \/ TagCalls("s1") \/ Verifications("s1") \/ EndRun("s1")

SpecTags == Init /\ [][NextTags]_vars

NextReview == ReviewedReports("s1") \/ ReviewEdits("s1") \/ EndRun("s1")

SpecReview == Init /\ [][NextReview]_vars

\* the form of a hunt that took at most one animal
SmallReport(s) ==
    \E animals \in Animals(Species), fails \in BOOLEAN :
        /\ Len(animals) <= 1
        /\ create_hunt_report(s, animals, fails)

\* a review sent for any report
ReviewSent(s) == \E report_id \in 1..MaxReports : update_hunt_report(s, report_id, <<1>>, <<"poor">>, FALSE)

\* the first tag, made for any report with a harvest
TagMade(s) ==
    \E hunt_report_id \in HuntReportIds, failure \in {"none", "commit"} :
        /\ animal_tags = <<>>
        /\ files = {}
        /\ hunt_reports[hunt_report_id].animals_harvested > 0
        /\ create_animal_tag(s, hunt_report_id, hunt_reports[hunt_report_id].hunter_id,
                             hunt_reports[hunt_report_id].field_id, "Red Grouse", "Excellent",
                             TRUE, failure)

\* the first hunter books the current day, the operator approves
DayBooking(s) ==
    \/ \E f \in Fields :
          show_diy_field_details(s, f, 1, today) \/ show_subsidised_field_details(s, f, 1, today)
    \/ CreateBookingSteps(s)
    \/ \E b \in 1..MaxBookings : outfitter_approve(s, b)
    \/ update_booking_status(s)

\* the operator blocks the current day and opens it again
DayBlocked(s) == \E f \in Fields : block_date(s, f, today) \/ unblock_date(s, f, today)

\* the day of a hunt in one browser session: booking and approval,
\* session and report, review, tag, and the operator's
\* blocked dates
NextFrame ==
    \/ DayBooking("s1") \/ HuntToday("s1") \/ SmallReport("s1") \/ ReviewSent("s1")
    \/ TagMade("s1") \/ DayBlocked("s1") \/ EndRun("s1")

SpecFrame == Init /\ [][NextFrame]_vars

\* hunters book on their pages in one browser session while the operator
\* edits the blocked dates in another
NextBlocked ==
    \/ HunterBooking("s1") \/ PaidBooking("s1") \/ CreateBookingSteps("s1") \/ EndRun("s1")
    \/ BlockedDates("s2")

SpecBlocked == Init /\ [][NextBlocked]_vars

\* everything, interleaved, with the administrator's status editor
NextAdmin ==
    \/ NextFlows
    \/ \E s \in Sessions : BlockedDates(s) \/ AdminCreate(s) \/ AdminStatus(s) \/ DirectCalls(s)

SpecAdmin == Init /\ [][NextAdmin]_vars

\* ================================================================ properties
Active(b) == bookings[b].status \in {"pending", "confirmed"}

ActiveOfHunter(hunter_id, date) ==
    {b \in BookingIds : Active(b) /\ bookings[b].hunter_id = hunter_id /\ bookings[b].date = date}

RECURSIVE ActiveSumUpTo(_, _, _)
ActiveSumUpTo(k, field_id, date) ==
    IF k = 0 THEN 0
    ELSE ActiveSumUpTo(k - 1, field_id, date)
         + (IF Active(k) /\ bookings[k].field_id = field_id /\ bookings[k].date = date
            THEN bookings[k].num_hunters ELSE 0)

ActiveSum(field_id, date) == ActiveSumUpTo(Len(bookings), field_id, date)

\* session s returns from create_booking's first database session in this step
LeavesCheck(s) == pc[s] = "cb_start" /\ pc'[s] # "cb_start"

\* session s commits its insert in this step
Inserts(s) ==
    /\ pc[s] \in {"cb_start", "cb_insert"}
    /\ pc'[s] = "done"
    /\ Len(bookings') = Len(bookings) + 1

\* C1: with no admin override, a hunter never has two bookings with status
\* pending or confirmed on the same date, whatever the fields
C1_NoDoubleBooking ==
    \A b1, b2 \in BookingIds :
        (b1 # b2 /\ Active(b1) /\ Active(b2) /\ bookings[b1].date = bookings[b2].date)
            => bookings[b1].hunter_id # bookings[b2].hunter_id

\* C2: on every field and date the num_hunters of the pending and confirmed
\* bookings sum to at most the field's capacity
C2_CapacityRespected ==
    \A f \in Fields, d \in Dates : ActiveSum(f, d) <= fields[f].capacity

\* C3: a request whose insert commits does not join a booking that was
\* inserted while the request was running (after its page checks) to
\* double-book the hunter or to overshoot the capacity of the field and date
C3_ConcurrentRequestsNeverBothSucceed ==
    [][\A s \in Sessions : Inserts(s) =>
          \A b \in (req[s].began + 1)..Len(bookings) :
              /\ ~(/\ bookings[b].hunter_id = req[s].hunter_id
                   /\ bookings[b].date = req[s].date)
              /\ ~(/\ bookings[b].field_id = req[s].field_id
                   /\ bookings[b].date = req[s].date
                   /\ Active(b)
                   /\ ActiveSum(req[s].field_id, req[s].date)' > fields[req[s].field_id].capacity)]_vars

C6_DoubleBookingRejected ==
    [][\A s \in Sessions :
          (/\ LeavesCheck(s)
           /\ ~req[s].admin_override
           /\ ActiveOfHunter(req[s].hunter_id, req[s].date) # {}) =>
              /\ ret'.op = "create_booking"
              /\ ret'.booking = None
              /\ ret'.message = "Double booking prevented"
              /\ ret'.field_name \in
                    {bookings[b].field_id : b \in ActiveOfHunter(req[s].hunter_id, req[s].date)}
              /\ bookings' = bookings]_vars

C8_InitialStatus ==
    [][Len(bookings') # Len(bookings) =>
          /\ Len(bookings') = Len(bookings) + 1
          /\ SubSeq(bookings', 1, Len(bookings)) = bookings
          /\ LET new == bookings'[Len(bookings')]
             IN new.status = IF fields[new.field_id].auto_approve_bookings
                             THEN "confirmed" ELSE "pending"]_vars

\* a booking was just created confirmed, on a field with automatic approval
C8_Witness ==
    /\ ret.op = "create_booking"
    /\ ret.booking # None
    /\ bookings[ret.booking].status = "confirmed"
    /\ fields[bookings[ret.booking].field_id].auto_approve_bookings

AllowedTransitions ==
    {<<"pending", "confirmed">>, <<"pending", "rejected">>, <<"confirmed", "cancelled">>}

\* C9: every change of a booking's status made by the hunter and operator
\* flows is pending -> confirmed, pending -> rejected or confirmed -> cancelled
C9_OnlyAllowedTransitions ==
    [][\A b \in BookingIds :
          bookings'[b].status # bookings[b].status =>
              <<bookings[b].status, bookings'[b].status>> \in AllowedTransitions]_vars

\* C10: the status of a cancelled or rejected booking never changes
C10_TerminalStatuses ==
    [][\A b \in BookingIds :
          bookings[b].status \in {"cancelled", "rejected"} =>
              bookings'[b].status = bookings[b].status]_vars

\* ------------------------------------------------------------- hunt sessions
HuntTransitions == {<<"not_started", "active">>, <<"active", "completed">>}

HuntReportsOfSession(session_id) ==
    {r \in HuntReportIds : hunt_reports[r].session_id = session_id}

\* session s applies start_hunt_session / end_hunt_session in this step
Starts(s) == pc[s] = "tv_view" /\ pc'[s] = "done" /\ ret'.op = "start_hunt_session"
Ends(s) == pc[s] = "rep_end" /\ pc'[s] = "done" /\ ret'.op = "end_hunt_session"

\* C11: every change of a hunt session's status is not_started -> active or
\* active -> completed: nothing skips a status and nothing goes back
C11_SessionMonotone ==
    [][\A x \in HuntSessionIds :
          hunt_sessions'[x].status # hunt_sessions[x].status =>
              <<hunt_sessions[x].status, hunt_sessions'[x].status>> \in HuntTransitions]_vars

\* C12: start_hunt_session applied to a session that is not not_started
\* leaves the session as it is; applied to a not_started one it makes it
\* active and sets start_time
C12_StartOnlyFromNotStarted ==
    [][\A s \in Sessions : Starts(s) =>
          LET x == req[s].session_id
          IN IF hunt_sessions[x].status = "not_started"
             THEN /\ hunt_sessions'[x].status = "active"
                  /\ hunt_sessions'[x].start_time # Null
             ELSE hunt_sessions'[x] = hunt_sessions[x]]_vars

\* C13: end_hunt_session applied to a session that is not active, or that has
\* no hunt report, leaves the session as it is; applied to an active session
\* with a report it makes it completed
C13_EndOnlyActiveWithReport ==
    [][\A s \in Sessions : Ends(s) =>
          LET x == req[s].session_id
          IN IF hunt_sessions[x].status = "active" /\ HuntReportsOfSession(x) # {}
             THEN hunt_sessions'[x].status = "completed"
             ELSE hunt_sessions'[x] = hunt_sessions[x]]_vars

\* C14: every completed hunt session has a hunt report
C14_CompletedHasReport ==
    \A x \in HuntSessionIds :
        hunt_sessions[x].status = "completed" => HuntReportsOfSession(x) # {}

\* C15: no booking has two hunt sessions
C15_OneSessionPerBooking ==
    \A x, y \in HuntSessionIds :
        hunt_sessions[x].booking_id = hunt_sessions[y].booking_id => x = y

\* C16: a hunt session is inserted only for a booking that is confirmed and
\* dated today when the insert is made
C16_SessionOnlyForTodaysConfirmed ==
    [][Len(hunt_sessions') > Len(hunt_sessions) =>
          LET b == hunt_sessions'[Len(hunt_sessions')].booking_id
          IN /\ b \in BookingIds
             /\ bookings[b].status = "confirmed"
             /\ bookings[b].date = today]_vars

\* C17: no hunt session has two hunt reports
C17_OneReportPerSession ==
    \A r1, r2 \in HuntReportIds :
        hunt_reports[r1].session_id = hunt_reports[r2].session_id => r1 = r2

\* -------------------------------------------------------------------- quota
\* a report is committed in this step
Reports == Len(hunt_reports') = Len(hunt_reports) + 1

RECURSIVE Quantity(_, _)
\* the animals of a species in a list of (species, quantity) pairs
Quantity(species_harvested, species) ==
    IF species_harvested = <<>> THEN 0
    ELSE (IF Head(species_harvested).species = species
          THEN Head(species_harvested).quantity ELSE 0)
         + Quantity(Tail(species_harvested), species)

RECURSIVE HarvestedUpTo(_, _, _)
\* the animals of a species reported for a field by the first k reports
HarvestedUpTo(k, field_id, species) ==
    IF k = 0 THEN 0
    ELSE HarvestedUpTo(k - 1, field_id, species)
         + (IF hunt_reports[k].field_id = field_id
            THEN Quantity(hunt_reports[k].species_harvested, species) ELSE 0)

Harvested(field_id, species) == HarvestedUpTo(Len(hunt_reports), field_id, species)

RECURSIVE AnimalsUpTo(_, _)
AnimalsUpTo(k, field_id) ==
    IF k = 0 THEN 0
    ELSE AnimalsUpTo(k - 1, field_id)
         + (IF hunt_reports[k].field_id = field_id THEN hunt_reports[k].animals_harvested ELSE 0)

C19_SpeciesQuotaDepleted ==
    [][(/\ Reports
        /\ hunt_reports'[Len(hunt_reports')].field_id \in Fields) =>
          LET new == hunt_reports'[Len(hunt_reports')]
              old == fields[new.field_id]
          IN (old.field_type = "diy-leased" /\ old.quarry_species # <<>>) =>
                /\ DOMAIN fields'[new.field_id].quarry_species = DOMAIN old.quarry_species
                /\ \A i \in DOMAIN old.quarry_species :
                      LET q == Quantity(new.species_harvested, old.quarry_species[i].species)
                          left == old.quarry_species[i].remaining - q
                      IN fields'[new.field_id].quarry_species[i] =
                            [old.quarry_species[i] EXCEPT
                                !.remaining = IF left > 0 THEN left ELSE 0]]_vars

\* the second report on a species took more than the first had left, and
\* the species stands at 0
C19_Witness ==
    /\ ret.op = "create_hunt_report"
    /\ ret.report = 2
    /\ \E i \in DOMAIN fields[ret.field_id].quarry_species :
          LET q == fields[ret.field_id].quarry_species[i]
          IN /\ hunt_reports[1].field_id = ret.field_id
             /\ Quantity(hunt_reports[1].species_harvested, q.species) > 0
             /\ Quantity(hunt_reports[1].species_harvested, q.species) < q.total
             /\ Quantity(hunt_reports[2].species_harvested, q.species)
                   > q.total - Quantity(hunt_reports[1].species_harvested, q.species)
             /\ q.remaining = 0

\* C20: a report for a diy-leased field with no species list and a scalar
\* quota leaves quarry_remaining at max(0, quarry_remaining - animals_harvested)
C20_ScalarQuotaDepleted ==
    [][(/\ Reports
        /\ hunt_reports'[Len(hunt_reports')].field_id \in Fields) =>
          LET new == hunt_reports'[Len(hunt_reports')]
              old == fields[new.field_id]
          IN (/\ old.field_type = "diy-leased"
              /\ old.quarry_species = <<>>
              /\ old.quarry_remaining # Null) =>
                LET left == old.quarry_remaining[1] - new.animals_harvested
                IN /\ fields'[new.field_id].quarry_remaining = <<IF left > 0 THEN left ELSE 0>>
                   /\ fields'[new.field_id].quarry_total = old.quarry_total]_vars

\* the reports on a ground with a scalar quota took more animals than the
\* quota held, and the quota stands at 0
C20_Witness ==
    \E f \in Fields :
        /\ fields[f].quarry_remaining = <<0>>
        /\ AnimalsUpTo(Len(hunt_reports), f) > fields[f].quarry_total[1]

\* ------------------------------------------------------------------- ledger
\* the browser session whose call of create_hunt_report ends in this step
Commits(s) == pc[s] = "chr_txn" /\ pc'[s] = "done"

QuotaOf(field) == <<field.quarry_species, field.quarry_remaining>>

\* the columns of a field row other than its quota
RestOf(field) == [field EXCEPT !.quarry_species = <<>>, !.quarry_remaining = Null]

\* C21: report and quota of one call are committed together or not at all:
\* a step that persists a report writes, for a ground that tracks a quota,
\* the quota that call computed from the row it read (a scalar quota when
\* the harvest lowers it), and touches nothing else, also when the field
\* does not exist; a step that persists no report, a failed call included,
\* changes no quota
C21_ReportAndQuotaAtomic ==
    [][/\ hunt_reports' # hunt_reports =>
            \E s \in Sessions :
                LET f == req[s].field_id
                    data == req[s].report_data
                IN /\ Commits(s)
                   /\ hunt_reports' = Append(hunt_reports,
                                             HuntReport(req[s].session_id, f,
                                                        req[s].hunter_id, data))
                   /\ \A g \in Fields \ {f} : fields'[g] = fields[g]
                   /\ f \in Fields =>
                         LET read == req[s].field_row[1]
                         IN /\ RestOf(fields'[f]) = RestOf(fields[f])
                            /\ (read.field_type = "diy-leased" /\ read.quarry_species # <<>>) =>
                                  /\ DOMAIN fields'[f].quarry_species = DOMAIN read.quarry_species
                                  /\ \A i \in DOMAIN read.quarry_species :
                                        fields'[f].quarry_species[i].remaining =
                                            Max(0, read.quarry_species[i].remaining
                                                   - Quantity(data.species_harvested,
                                                              read.quarry_species[i].species))
                            /\ (/\ read.field_type = "diy-leased"
                                /\ read.quarry_species = <<>>
                                /\ read.quarry_remaining # Null
                                /\ Max(0, read.quarry_remaining[1] - data.animals_harvested)
                                      # read.quarry_remaining[1]) =>
                                  fields'[f].quarry_remaining =
                                      <<Max(0, read.quarry_remaining[1] - data.animals_harvested)>>
       /\ hunt_reports' = hunt_reports =>
            \A f \in Fields : QuotaOf(fields'[f]) = QuotaOf(fields[f])]_vars

\* a call for a ground has raised and returned no report, and the ground's
\* quota is its total less what the one persisted report took
C21_Witness ==
    /\ ret.op = "create_hunt_report"
    /\ ret.report = None
    /\ Len(hunt_reports) = 1
    /\ ret.field_id = hunt_reports[1].field_id
    /\ ret.field_id \in Fields
    /\ \E i \in DOMAIN fields[ret.field_id].quarry_species :
          LET q == fields[ret.field_id].quarry_species[i]
          IN /\ q.remaining < q.total
             /\ q.remaining = q.total - Quantity(hunt_reports[1].species_harvested, q.species)

\* C22: a report with animals_harvested = 0 is persisted and leaves the
\* quota of its field as it was
C22_EmptyHandedKeepsQuota ==
    [][\A s \in Sessions :
          (/\ Commits(s)
           /\ req[s].report_data.animals_harvested = 0
           /\ ret'.report # None) =>
              /\ Len(hunt_reports') = Len(hunt_reports) + 1
              /\ \A f \in Fields : QuotaOf(fields'[f]) = QuotaOf(fields[f])]_vars

\* C23: the quota of every ground is its total less everything the
\* persisted reports took from it, floored at 0: no decrement is lost
C23_NoLostUpdate ==
    \A f \in Fields :
        /\ \A i \in DOMAIN fields[f].quarry_species :
              LET q == fields[f].quarry_species[i]
              IN q.remaining = Max(0, q.total - Harvested(f, q.species))
        /\ (fields[f].field_type = "diy-leased" /\ fields[f].quarry_species = <<>>
                /\ fields[f].quarry_remaining # Null) =>
              fields[f].quarry_remaining[1]
                  = Max(0, fields[f].quarry_total[1] - AnimalsUpTo(Len(hunt_reports), f))

\* ------------------------------------------------------------------ reviews
\* a call of update_hunt_report is made in this step
Updates(s) == pc[s] = "idle" /\ pc'[s] = "done" /\ ret'.op = "update_hunt_report"

\* the columns of a report row other than its review
HarvestOf(report) == [report EXCEPT !.review_rating = Null, !.review_text = ""]

\* C24: update_hunt_report changes only review_rating and review_text of
\* the addressed report, and with an unknown id returns no report and
\* changes nothing
C24_UpdateOnlyReview ==
    [][\A s \in Sessions :
          Updates(s) =>
              /\ UNCHANGED <<fields, bookings, hunt_sessions, animal_tags, files>>
              /\ Len(hunt_reports') = Len(hunt_reports)
              /\ \A r \in HuntReportIds :
                    /\ HarvestOf(hunt_reports'[r]) = HarvestOf(hunt_reports[r])
                    /\ r # req'[s].report_id => hunt_reports'[r] = hunt_reports[r]
              /\ req'[s].report_id \notin HuntReportIds =>
                    ret'.report = None /\ hunt_reports' = hunt_reports]_vars

\* the review of a report with a harvest was edited to a rating no form
\* gives at creation, next to another report that kept its review
C24_Witness ==
    /\ ret.op = "update_hunt_report"
    /\ ret.report # None
    /\ hunt_reports[ret.report].animals_harvested > 0
    /\ hunt_reports[ret.report].review_rating = <<1>>
    /\ hunt_reports[ret.report].review_text = "poor"
    /\ \E r \in HuntReportIds : r # ret.report /\ hunt_reports[r].review_rating = <<5>>

\* ---------------------------------------------------------- quota exhaustion
\* C25: is_quota_exhausted is true exactly for a diy-leased field that has
\* a species list with every remaining <= 0, or no list and a scalar
\* remaining <= 0; it is false for every field that is not diy-leased
C25_ExhaustedIff ==
    ret.op = "is_quota_exhausted" =>
        LET field == fields[ret.field_id]
        IN /\ ret.result <=>
                /\ field.field_type = "diy-leased"
                /\ \/ /\ Len(field.quarry_species) > 0
                      /\ \A i \in 1..Len(field.quarry_species) :
                            ~(field.quarry_species[i].remaining > 0)
                   \/ /\ Len(field.quarry_species) = 0
                      /\ field.quarry_remaining \in {<<r>> : r \in -MaxQuota..0}
           /\ field.field_type # "diy-leased" => ~ret.result

\* the helper answered true for a list of two exhausted species
C25_Witness ==
    /\ ret.op = "is_quota_exhausted"
    /\ ret.result
    /\ Len(fields[ret.field_id].quarry_species) = 2

TagNumbersOf(tags) == {tags[i].tag_number : i \in DOMAIN tags}

\* C27: a create_animal_tag call that succeeds yields a tag number that no
\* tag created before it has (no row is ever removed, so those are the rows
\* of the table), and no two rows of animal_tags share a tag number
C27_TagNumbersUnique ==
    [][/\ Len(animal_tags') >= Len(animal_tags)
       /\ \A i \in DOMAIN animal_tags : animal_tags'[i] = animal_tags[i]
       /\ (ret'.op = "create_animal_tag" /\ ret'.tag # None) =>
              /\ animal_tags' = Append(animal_tags, animal_tags'[ret'.tag])
              /\ animal_tags'[ret'.tag].tag_number \notin TagNumbersOf(animal_tags)
       /\ \A i, j \in DOMAIN animal_tags' :
              animal_tags'[i].tag_number = animal_tags'[j].tag_number => i = j]_vars

\* a second tag has just been created, its number not the first one's
C27_Witness ==
    /\ ret.op = "create_animal_tag"
    /\ ret.tag = 2
    /\ Len(animal_tags) = 2
    /\ animal_tags[1].tag_number # animal_tags[2].tag_number

\* C28: the tag a successful create_animal_tag returns carries the report,
\* hunter, field, species and condition passed; the verification of a number
\* returns the row with that number when one was issued and nothing when
\* none was, and changes no table or file
C28_VerifyReturnsTag ==
    [][/\ (ret'.op = "create_animal_tag" /\ ret'.tag # None) =>
              LET tag == animal_tags'[ret'.tag]
                  call == req'["s1"]
              IN /\ tag.tag_number = call.tag_number
                 /\ tag.hunt_report_id = call.report_id
                 /\ tag.hunter_id = call.hunter_id
                 /\ tag.field_id = call.field_id
                 /\ tag.species = call.species
                 /\ tag.condition = call.condition
       /\ \A i \in DOMAIN animal_tags : i \in DOMAIN animal_tags' /\ animal_tags'[i] = animal_tags[i]
       /\ (ret'.op = "show_public_tag_verification" /\ req'["s1"].tag_number # None) =>
              /\ UNCHANGED <<fields, bookings, hunt_sessions, hunt_reports, animal_tags, files>>
              /\ \A i \in DOMAIN animal_tags :
                    animal_tags[i].tag_number = req'["s1"].tag_number => ret'.tag = i
              /\ req'["s1"].tag_number \notin TagNumbersOf(animal_tags) => ret'.tag = None]_vars

\* C29: the page says "Tag Not Found" only for a number that is not
\* registered, never for an issued tag whose lookup failed
C29_NotFoundMeansUnregistered ==
    (ret.op = "show_public_tag_verification" /\ ret.page = "Tag Not Found") =>
        req["s1"].tag_number \notin TagNumbersOf(animal_tags)

\* C30: every path a tag row names is a stored file, and every stored QR
\* image or photo belongs to the number of a tag row
C30_ArtifactsAllOrNothing ==
    /\ \A i \in DOMAIN animal_tags :
          /\ animal_tags[i].qr_code_path # Null => animal_tags[i].qr_code_path[1] \in files
          /\ animal_tags[i].photo_path # Null => animal_tags[i].photo_path[1] \in files
    /\ \A path \in files : path[2] \in TagNumbersOf(animal_tags)

TagsOfReport(report_id) == {i \in DOMAIN animal_tags : animal_tags[i].hunt_report_id = report_id}

\* C31: every tag belongs to an existing report with animals_harvested > 0,
\* and a report with N harvested animals has at most N tags
C31_TagsWithinHarvest ==
    /\ \A i \in DOMAIN animal_tags :
          /\ animal_tags[i].hunt_report_id \in HuntReportIds
          /\ hunt_reports[animal_tags[i].hunt_report_id].animals_harvested > 0
    /\ \A report_id \in HuntReportIds :
          Cardinality(TagsOfReport(report_id)) <= hunt_reports[report_id].animals_harvested

\* ---------------------------------------------------------- storage failures
\* C32: a call of create_hunt_report in which the storage layer failed
\* returns no report, and leaves no report row and no change of a field
C32_FailureLeavesNothing ==
    [][\A s \in Sessions :
          (Commits(s) /\ ret'.report = None) =>
              /\ hunt_reports' = hunt_reports
              /\ fields' = fields]_vars

\* ------------------------------------------------------ completed is terminal
\* C33: once a hunt session is completed, no step changes its status, its
\* start_time or its end_time
C33_CompletedIsTerminal ==
    [][\A x \in HuntSessionIds :
          hunt_sessions[x].status = "completed" =>
              /\ hunt_sessions'[x].status = "completed"
              /\ hunt_sessions'[x].start_time = hunt_sessions[x].start_time
              /\ hunt_sessions'[x].end_time = hunt_sessions[x].end_time]_vars

\* C34: a report is recorded only for a session that exists and is active
\* at the moment of the create_hunt_report call
C34_ReportOnlyForActiveSession ==
    [][hunt_reports' # hunt_reports =>
          LET report == hunt_reports'[Len(hunt_reports')]
          IN /\ report.session_id \in HuntSessionIds
             /\ hunt_sessions[report.session_id].status = "active"]_vars

\* ----------------------------------------------------------- quota ownership
\* the quota columns of a field: the species list with its totals, the scalar pair
QuotaColumns(field) == <<field.quarry_species, field.quarry_total, field.quarry_remaining>>

\* C35: the quota of a field changes only in a step of create_hunt_report
\* that records a report for that field, and then only in its remaining
\* values; every other operation leaves every quota entry as it was
C35_QuotaOnlyByReport ==
    [][\A f \in Fields :
          QuotaColumns(fields'[f]) # QuotaColumns(fields[f]) =>
              /\ ret'.op = "create_hunt_report"
              /\ Len(hunt_reports') = Len(hunt_reports) + 1
              /\ hunt_reports'[Len(hunt_reports')].field_id = f
              /\ fields'[f].quarry_total = fields[f].quarry_total
              /\ Len(fields'[f].quarry_species) = Len(fields[f].quarry_species)
              /\ \A i \in DOMAIN fields[f].quarry_species :
                    /\ fields'[f].quarry_species[i].species = fields[f].quarry_species[i].species
                    /\ fields'[f].quarry_species[i].total = fields[f].quarry_species[i].total]_vars

\* a ground whose quota a report has lowered, with a date blocked after it,
\* a completed session, a reviewed report and a tag
C35_Witness ==
    /\ \E f \in Fields :
          /\ fields[f].blocked_dates # {}
          /\ \E i \in DOMAIN fields[f].quarry_species :
                fields[f].quarry_species[i].remaining < fields[f].quarry_species[i].total
    /\ \E x \in HuntSessionIds : hunt_sessions[x].status = "completed"
    /\ \E r \in HuntReportIds : hunt_reports[r].review_rating # Null
    /\ animal_tags # <<>>

\* -------------------------------------------------------------- delete review
\* C36: after the administrator's "Delete Review" on a report, the report
\* has no rating and no review text
C36_DeleteReviewClears ==
    [][\A report_id \in HuntReportIds :
          admin_delete_review("s1", report_id) =>
              /\ hunt_reports'[report_id].review_rating = Null
              /\ hunt_reports'[report_id].review_text = ""]_vars

\* --------------------------------------------------------------- failed lookup
\* C37: a create_booking call without override whose double-booking lookup
\* raised, for a hunter who has a pending or confirmed booking on the date,
\* does not go on to insert a booking
C37_FailedLookupCreatesNothing ==
    [][\A s \in Sessions :
          (/\ ~req[s].admin_override
           /\ HunterBookingsOnDate(req[s].hunter_id, req[s].date) # {}
           /\ create_booking_check(s, TRUE)) =>
              /\ pc'[s] # "cb_insert"
              /\ ret'.op = "create_booking"
              /\ ret'.booking = None]_vars

C39_NoBookingOnBlockedDate ==
    [][\A s \in Sessions :
          Inserts(s) =>
              LET new == bookings'[Len(bookings')]
              IN new.date \notin fields[new.field_id].blocked_dates]_vars

\* ----------------------------------------------------------- species entries
\* C40: a create_hunt_report call for a field with a species list changes
\* the remaining of no entry whose species its harvest list does not name,
\* and changes no total, no species name and neither the length nor the
\* order of the list
C40_OnlyNamedSpeciesChange ==
    [][\A s \in Sessions :
          (Commits(s) /\ req[s].field_id \in Fields) =>
              LET before == fields[req[s].field_id].quarry_species
                  after == fields'[req[s].field_id].quarry_species
              IN /\ Len(after) = Len(before)
                 /\ \A i \in DOMAIN before :
                       /\ after[i].species = before[i].species
                       /\ after[i].total = before[i].total
                       /\ Quantity(req[s].report_data.species_harvested, before[i].species) = 0
                             => after[i].remaining = before[i].remaining]_vars
====
